---- MODULE Spec2Model ----
(***************************************************************************)
(* CurlShims: nine fixed-signature forwarders around libcurl's variadic    *)
(* curl_easy_setopt / curl_easy_getinfo (CurlShims.c, CurlShims.h).         *)
(*                                                                         *)
(* The forwarders run on caller threads.  Each thread is either outside a  *)
(* forwarder ("idle", "returned"), inside one with its arguments bound     *)
(* ("entered"), or gone because the process died in the library            *)
(* ("aborted").  The wrapped library and the caller's memory are the only  *)
(* shared state; the shim itself has none.                                 *)
(*                                                                         *)
(* C values that are 64 bits wide on the build (long, curl_off_t, object   *)
(* and function pointers, double) are words of four 16-bit limbs, most    *)
(* significant first.                                                      *)
(***************************************************************************)
EXTENDS Integers, Sequences, FiniteSets, TLC

\* ---------------------------------------------------------------- bounds
NThreads == 2
MaxCalls == 2

Threads == 1..NThreads

\* ------------------------------------------------------------ 64-bit words
Limb == 2^16

Zero     == <<0, 0, 0, 0>>
MinusOne == <<65535, 65535, 65535, 65535>>
Pow32    == <<0, 1, 0, 0>>
Int64Min == <<32768, 0, 0, 0>>

IsNegative(w) == w[1] >= Limb \div 2

\* w < -1 as a signed 64-bit value
BelowMinusOne(w) == IsNegative(w) /\ w # MinusOne

\* C conversion of a 64-bit value to the integer type ctype: the 64-bit
\* types keep every bit, int keeps the low 32 bits and sign-extends.
ConvertTo(ctype, w) ==
  IF ctype = "int"
    THEN LET s == IF w[3] >= Limb \div 2 THEN Limb - 1 ELSE 0
         IN <<s, s, w[3], w[4]>>
    ELSE w

\* An argument in the variadic part of a call: the default argument
\* promotions leave long, curl_off_t and pointers as they are, so the slot
\* carries the value at the width of its own type.
VaArg(ctype, v) == [ctype |-> ctype, bits |-> ConvertTo(ctype, v)]

\* ------------------------------------------------------ identifiers, codes
NULL == "NULL"
Sessions == {"h1", "h2"}
Handles == Sessions \cup {NULL}

Options == {"CURLOPT_TIMEOUT", "CURLOPT_URL", "CURLOPT_WRITEDATA",
            "CURLOPT_INFILESIZE_LARGE", "CURLOPT_WRITEFUNCTION",
            "CURLOPT_HEADERFUNCTION", "CURLOPT_XFERINFOFUNCTION"}

Infos == {"CURLINFO_RESPONSE_CODE", "CURLINFO_TOTAL_TIME"}

\* addresses in the caller's memory, as pointer words: a double at LocA and
\* a long at LocB
LocA == <<0, 0, 16, 0>>
LocB == <<0, 0, 16, 8>>
Locations == {LocA, LocB}
\* what a destination holds before anything was read into it
Sentinel == <<0, 0, 0, 7>>

StrA  == <<0, 0, 32, 0>>
PtrA  == <<0, 0, 48, 0>>
CbW   == <<0, 0, 64, 0>>
CbP   == <<0, 0, 64, 64>>

\* a session option that was never set (or was reset)
Unset == <<>>

SetoptForwarders ==
  {"curl_easy_setopt_long", "curl_easy_setopt_string",
   "curl_easy_setopt_pointer", "curl_easy_setopt_int64",
   "curl_easy_setopt_write_callback", "curl_easy_setopt_header_callback",
   "curl_easy_setopt_progress_callback"}
GetinfoForwarders == {"curl_easy_getinfo_double", "curl_easy_getinfo_long"}
Forwarders == SetoptForwarders \cup GetinfoForwarders

\* the C type of each forwarder's third parameter, as declared
ParamType(fn) ==
  CASE fn = "curl_easy_setopt_long"              -> "long"
    [] fn = "curl_easy_setopt_string"            -> "const char *"
    [] fn = "curl_easy_setopt_pointer"           -> "void *"
    [] fn = "curl_easy_setopt_int64"             -> "curl_off_t"
    [] fn = "curl_easy_setopt_write_callback"    -> "size_t (*)(char *, size_t, size_t, void *)"
    [] fn = "curl_easy_setopt_header_callback"   -> "size_t (*)(char *, size_t, size_t, void *)"
    [] fn = "curl_easy_setopt_progress_callback" -> "int (*)(void *, curl_off_t, curl_off_t, curl_off_t, curl_off_t)"
    [] fn = "curl_easy_getinfo_double"           -> "double *"
    [] fn = "curl_easy_getinfo_long"             -> "long *"

\* ------------------------------------------------------ the wrapped library
\* How the library reads the variadic argument of an option / info.
OptClass(tag) ==
  CASE tag = "CURLOPT_TIMEOUT"          -> "long"
    [] tag = "CURLOPT_INFILESIZE_LARGE" -> "off_t"
    [] tag = "CURLOPT_URL"              -> "string"
    [] tag = "CURLOPT_WRITEDATA"        -> "objptr"
    [] tag \in {"CURLOPT_WRITEFUNCTION", "CURLOPT_HEADERFUNCTION",
                "CURLOPT_XFERINFOFUNCTION"} -> "fnptr"
    [] OTHER -> "unknown"

InfoClass(tag) ==
  CASE tag = "CURLINFO_RESPONSE_CODE" -> "long"
    [] tag = "CURLINFO_TOTAL_TIME"    -> "double"
    [] OTHER -> "unknown"

\* Reading a variadic slot as a type other than the one it was passed as is
\* undefined; these are the pairs for which the read is defined.
ArgMatches(cls, ctype) ==
  CASE cls = "long"   -> ctype = "long"
    [] cls = "off_t"  -> ctype = "curl_off_t"
    [] cls \in {"string", "objptr"} -> ctype \in {"const char *", "void *"}
    [] cls = "fnptr"  -> ctype \in {ParamType("curl_easy_setopt_write_callback"),
                                    ParamType("curl_easy_setopt_progress_callback")}
    [] OTHER -> TRUE

SetoptCall(curl, option, arg) ==
  [fn |-> "curl_easy_setopt", curl |-> curl, tag |-> option, arg |-> arg]

GetinfoCall(curl, info, arg) ==
  [fn |-> "curl_easy_getinfo", curl |-> curl, tag |-> info, arg |-> arg]

\* curl_easy_setopt(curl, tag, arg) in library state L, memory M.
LibSetopt(L, M, call, e) ==
  LET cls == OptClass(call.tag)
      v   == call.arg.bits
      fail(code) == [lib |-> L, mem |-> M, rc |-> code, crashed |-> FALSE,
                     stored |-> FALSE, value |-> Unset]
      store(x)   == [lib |-> [L EXCEPT ![call.curl].opt[call.tag] = x],
                     mem |-> M, rc |-> "CURLE_OK", crashed |-> FALSE,
                     stored |-> TRUE, value |-> x]
  IN  IF call.curl = NULL THEN fail("CURLE_BAD_FUNCTION_ARGUMENT")
      ELSE IF cls = "unknown" THEN fail("CURLE_UNKNOWN_OPTION")
      ELSE IF ~ArgMatches(cls, call.arg.ctype) /\ e = "crash"
        THEN [lib |-> L, mem |-> M, rc |-> "none", crashed |-> TRUE,
              stored |-> FALSE, value |-> Unset]
      ELSE CASE cls = "long" ->
                  IF IsNegative(v) THEN fail("CURLE_BAD_FUNCTION_ARGUMENT")
                  ELSE store(v)
             [] cls = "off_t" ->
                  IF BelowMinusOne(v) THEN fail("CURLE_BAD_FUNCTION_ARGUMENT")
                  ELSE store(v)
             [] cls = "string" ->
                  IF v = Zero THEN store(Unset)
                  ELSE IF e = "nomem" THEN fail("CURLE_OUT_OF_MEMORY")
                  ELSE store(v)
             [] OTHER -> store(v)

\* curl_easy_getinfo(curl, tag, arg): arg is the destination's address.
LibGetinfo(L, M, call, e) ==
  LET fail(code) == [lib |-> L, mem |-> M, rc |-> code, crashed |-> FALSE,
                     stored |-> FALSE, value |-> Unset]
  IN  IF call.curl = NULL THEN fail("CURLE_BAD_FUNCTION_ARGUMENT")
      ELSE IF InfoClass(call.tag) = "unknown" THEN fail("CURLE_UNKNOWN_OPTION")
      ELSE IF call.arg.bits \notin DOMAIN M
        THEN [lib |-> L, mem |-> M, rc |-> "none", crashed |-> TRUE,
              stored |-> FALSE, value |-> Unset]
      ELSE [lib |-> L,
            mem |-> [M EXCEPT ![call.arg.bits] = L[call.curl].info[call.tag]],
            rc |-> "CURLE_OK", crashed |-> FALSE,
            stored |-> TRUE, value |-> L[call.curl].info[call.tag]]

\* What the environment may decide for this library call: nothing special
\* ("ok"), an allocation failure where the library copies a string, a crash
\* where the library's read of the argument is undefined.
ChoicesFor(call) ==
  {"ok"}
    \cup (IF call.fn = "curl_easy_setopt" /\ OptClass(call.tag) = "string"
            THEN {"nomem"} ELSE {})
    \cup (IF call.fn = "curl_easy_setopt" /\ ~ArgMatches(OptClass(call.tag), call.arg.ctype)
            THEN {"crash"} ELSE {})

LibCall(L, M, call, e) ==
  IF call.fn = "curl_easy_setopt" THEN LibSetopt(L, M, call, e)
  ELSE LibGetinfo(L, M, call, e)

\* The sessions as the caller created them: no option set; the last
\* transfer's response code and total time (a double, 1.5 and 0.25 s).
InitLib ==
  [h \in Sessions |->
     [opt  |-> [o \in Options |-> Unset],
      info |-> [i \in Infos |->
                  IF i = "CURLINFO_RESPONSE_CODE"
                    THEN (IF h = "h1" THEN <<0, 0, 0, 200>> ELSE <<0, 0, 0, 404>>)
                    ELSE (IF h = "h1" THEN <<16376, 0, 0, 0>> ELSE <<16336, 0, 0, 0>>)]]]

InitMem == [a \in Locations |-> Sentinel]

\* ------------------------------------------------------------ caller inputs
\* The <<handle, identifier, value>> triples a caller passes to each
\* forwarder: live and null handles; identifiers of the forwarder's own kind,
\* of another kind, and invalid ones; values outside the 32-bit range,
\* accepted and rejected by the library.  CURLINFO_NONE is the info
\* enumeration's first value and names no info.
InputsFor(fn) ==
  CASE fn = "curl_easy_setopt_long" ->
         {<<"h1", "CURLOPT_TIMEOUT", Pow32>>, <<"h1", "CURLOPT_TIMEOUT", MinusOne>>,
          <<NULL, "CURLOPT_TIMEOUT", Pow32>>, <<"h1", "CURLOPT_URL", Pow32>>}
    [] fn = "curl_easy_setopt_string" ->
         {<<"h1", "CURLOPT_URL", StrA>>}
    [] fn = "curl_easy_setopt_pointer" ->
         {<<"h1", "CURLOPT_WRITEDATA", PtrA>>}
    [] fn = "curl_easy_setopt_int64" ->
         {<<"h1", "CURLOPT_INFILESIZE_LARGE", Pow32>>,
          <<"h1", "CURLOPT_INFILESIZE_LARGE", Int64Min>>}
    [] fn = "curl_easy_setopt_write_callback" ->
         {<<"h1", "CURLOPT_WRITEFUNCTION", CbW>>, <<"h2", "CURLOPT_WRITEFUNCTION", CbW>>}
    [] fn = "curl_easy_setopt_header_callback" ->
         {<<"h1", "CURLOPT_WRITEFUNCTION", CbW>>, <<"h1", "CURLOPT_HEADERFUNCTION", CbW>>}
    [] fn = "curl_easy_setopt_progress_callback" ->
         {<<"h1", "CURLOPT_XFERINFOFUNCTION", CbP>>, <<NULL, "CURLOPT_XFERINFOFUNCTION", CbP>>}
    [] fn = "curl_easy_getinfo_double" ->
         {<<"h1", "CURLINFO_TOTAL_TIME", LocA>>, <<NULL, "CURLINFO_TOTAL_TIME", LocA>>,
          <<"h1", "CURLINFO_RESPONSE_CODE", LocA>>}
    [] fn = "curl_easy_getinfo_long" ->
         {<<"h1", "CURLINFO_RESPONSE_CODE", LocB>>, <<"h2", "CURLINFO_RESPONSE_CODE", LocB>>,
          <<NULL, "CURLINFO_RESPONSE_CODE", LocB>>, <<"h1", "CURLINFO_NONE", LocB>>}

\* ------------------------------------------------------------------- state
VARIABLES
  pc,       \* per thread: "idle", "entered", "returned", "aborted"
  frame,    \* per thread: the forwarder called and its three arguments
  result,   \* per thread: the CURLcode the forwarder returned
  calls,    \* per thread: the library calls the current invocation made
  lib,      \* the library's sessions
  mem,      \* the caller's memory (getinfo destinations)
  libD,     \* the sessions, had every call been made to the library directly
  memD,     \* the caller's memory under direct calls
  resultD,  \* per thread: the CURLcode of the direct call
  ncalls    \* forwarder invocations so far

vars == <<pc, frame, result, calls, lib, mem, libD, memD, resultD, ncalls>>

NoFrame == [fn |-> "none", curl |-> NULL, option |-> "none", parameter |-> Zero]

Init ==
  /\ pc = [t \in Threads |-> "idle"]
  /\ frame = [t \in Threads |-> NoFrame]
  /\ result = [t \in Threads |-> "none"]
  /\ calls = [t \in Threads |-> <<>>]
  /\ lib = InitLib
  /\ mem = InitMem
  /\ libD = InitLib
  /\ memD = InitMem
  /\ resultD = [t \in Threads |-> "none"]
  /\ ncalls = 0

Aborted == \E t \in Threads : pc[t] = "aborted"

\* A caller thread calls forwarder fn(curl, option, parameter); for the
\* getinfo forwarders the C names of the last two are info and value.
Call(t) ==
  /\ ~Aborted
  /\ pc[t] \in {"idle", "returned"}
  /\ ncalls < MaxCalls
  /\ \E fn \in Forwarders :
       \E a \in InputsFor(fn) :
         frame' = [frame EXCEPT ![t] = [fn |-> fn, curl |-> a[1],
                                        option |-> a[2], parameter |-> a[3]]]
  /\ pc' = [pc EXCEPT ![t] = "entered"]
  /\ result' = [result EXCEPT ![t] = "none"]
  /\ resultD' = [resultD EXCEPT ![t] = "none"]
  /\ calls' = [calls EXCEPT ![t] = <<>>]
  /\ ncalls' = ncalls + 1
  /\ UNCHANGED <<lib, mem, libD, memD>>

\* The call the caller would have made without the shim.
DirectCall(f) ==
  IF f.fn \in SetoptForwarders
    THEN SetoptCall(f.curl, f.option, VaArg(ParamType(f.fn), f.parameter))
    ELSE GetinfoCall(f.curl, f.option, VaArg(ParamType(f.fn), f.parameter))

Entered(t, fn) == ~Aborted /\ pc[t] = "entered" /\ frame[t].fn = fn

\* The record of one library call and what it did.
Made(call, r) == [call |-> call, rc |-> r.rc, stored |-> r.stored, value |-> r.value]

\* The forwarder made the calls `made`, leaving the library as in r, and
\* returns ret to its caller (unless the process died in the library).
Return(t, made, r, ret, e) ==
  LET d == LibCall(libD, memD, DirectCall(frame[t]), e)
  IN  /\ lib' = r.lib
      /\ mem' = r.mem
      /\ calls' = [calls EXCEPT ![t] = made]
      /\ result' = [result EXCEPT ![t] = IF r.crashed THEN "none" ELSE ret]
      /\ pc' = [pc EXCEPT ![t] = IF r.crashed THEN "aborted" ELSE "returned"]
      /\ libD' = d.lib
      /\ memD' = d.mem
      /\ resultD' = [resultD EXCEPT ![t] = IF d.crashed THEN "none" ELSE d.rc]
      /\ UNCHANGED <<frame, ncalls>>

\* -------------------------------------------------------------- forwarders
\* variant: rejects a null handle itself, without calling the library
curl_easy_setopt_long_nullcheck(t) ==
  /\ Entered(t, "curl_easy_setopt_long")
  /\ LET call == SetoptCall(frame[t].curl, frame[t].option,
                            VaArg("long", frame[t].parameter))
     IN \E e \in ChoicesFor(call) :
       LET r    == LibCall(lib, mem, call, e)
           none == [lib |-> lib, mem |-> mem, rc |-> "none", crashed |-> FALSE,
                    stored |-> FALSE, value |-> Unset]
       IN  IF frame[t].curl = NULL
             THEN Return(t, <<>>, none, "CURLE_BAD_FUNCTION_ARGUMENT", e)
             ELSE Return(t, <<Made(call, r)>>, r, r.rc, e)

curl_easy_setopt_long(t) ==
  /\ Entered(t, "curl_easy_setopt_long")
  /\ LET call == SetoptCall(frame[t].curl, frame[t].option,
                            VaArg("long", frame[t].parameter))
     IN \E e \in ChoicesFor(call) :
       LET r    == LibCall(lib, mem, call, e)
       IN  Return(t, <<Made(call, r)>>, r, r.rc, e)

\* variant: calls the library a second time when the first call failed
curl_easy_setopt_string_retry(t) ==
  /\ Entered(t, "curl_easy_setopt_string")
  /\ LET call == SetoptCall(frame[t].curl, frame[t].option,
                            VaArg("const char *", frame[t].parameter))
     IN \E e \in ChoicesFor(call) :
       LET r    == LibCall(lib, mem, call, e)
           r2   == LibCall(r.lib, r.mem, call, e)
       IN  IF r.crashed \/ r.rc = "CURLE_OK"
             THEN Return(t, <<Made(call, r)>>, r, r.rc, e)
             ELSE Return(t, <<Made(call, r), Made(call, r2)>>, r2, r2.rc, e)

curl_easy_setopt_string(t) ==
  /\ Entered(t, "curl_easy_setopt_string")
  /\ LET call == SetoptCall(frame[t].curl, frame[t].option,
                            VaArg("const char *", frame[t].parameter))
     IN \E e \in ChoicesFor(call) :
       LET r    == LibCall(lib, mem, call, e)
       IN  Return(t, <<Made(call, r)>>, r, r.rc, e)

\* variant: once a forwarder call of another thread has failed, fails at
\* once with that status instead of calling the library
curl_easy_setopt_pointer_sticky(t) ==
  /\ Entered(t, "curl_easy_setopt_pointer")
  /\ LET call == SetoptCall(frame[t].curl, frame[t].option,
                            VaArg("void *", frame[t].parameter))
     IN \E e \in ChoicesFor(call) :
       LET r    == LibCall(lib, mem, call, e)
           none == [lib |-> lib, mem |-> mem, rc |-> "none", crashed |-> FALSE,
                    stored |-> FALSE, value |-> Unset]
           bad  == {u \in Threads : u # t /\ result[u] \notin {"none", "CURLE_OK"}}
       IN  IF bad # {}
             THEN Return(t, <<>>, none, result[CHOOSE u \in bad : TRUE], e)
             ELSE Return(t, <<Made(call, r)>>, r, r.rc, e)

curl_easy_setopt_pointer(t) ==
  /\ Entered(t, "curl_easy_setopt_pointer")
  /\ LET call == SetoptCall(frame[t].curl, frame[t].option,
                            VaArg("void *", frame[t].parameter))
     IN \E e \in ChoicesFor(call) :
       LET r    == LibCall(lib, mem, call, e)
       IN  Return(t, <<Made(call, r)>>, r, r.rc, e)

\* variant: narrows the value to int before passing it on
curl_easy_setopt_int64_narrow(t) ==
  /\ Entered(t, "curl_easy_setopt_int64")
  /\ LET call == SetoptCall(frame[t].curl, frame[t].option,
                            [ctype |-> "curl_off_t",
                            bits |-> ConvertTo("int", frame[t].parameter)])
     IN \E e \in ChoicesFor(call) :
       LET r    == LibCall(lib, mem, call, e)
       IN  Return(t, <<Made(call, r)>>, r, r.rc, e)

curl_easy_setopt_int64(t) ==
  /\ Entered(t, "curl_easy_setopt_int64")
  /\ LET call == SetoptCall(frame[t].curl, frame[t].option,
                            VaArg("curl_off_t", frame[t].parameter))
     IN \E e \in ChoicesFor(call) :
       LET r    == LibCall(lib, mem, call, e)
       IN  Return(t, <<Made(call, r)>>, r, r.rc, e)

\* variant: waits while a thread with a smaller id is inside a forwarder
curl_easy_setopt_write_callback_locked(t) ==
  /\ Entered(t, "curl_easy_setopt_write_callback")
  /\ \A u \in Threads : u < t => pc[u] # "entered"
  /\ LET call == SetoptCall(frame[t].curl, frame[t].option,
                            VaArg("size_t (*)(char *, size_t, size_t, void *)",
                            frame[t].parameter))
     IN \E e \in ChoicesFor(call) :
       LET r    == LibCall(lib, mem, call, e)
       IN  Return(t, <<Made(call, r)>>, r, r.rc, e)

curl_easy_setopt_write_callback(t) ==
  /\ Entered(t, "curl_easy_setopt_write_callback")
  /\ LET call == SetoptCall(frame[t].curl, frame[t].option,
                            VaArg("size_t (*)(char *, size_t, size_t, void *)",
                            frame[t].parameter))
     IN \E e \in ChoicesFor(call) :
       LET r    == LibCall(lib, mem, call, e)
       IN  Return(t, <<Made(call, r)>>, r, r.rc, e)

\* variant: always registers the header callback, whatever option was passed
curl_easy_setopt_header_callback_fixed(t) ==
  /\ Entered(t, "curl_easy_setopt_header_callback")
  /\ LET call == SetoptCall(frame[t].curl, "CURLOPT_HEADERFUNCTION",
                            VaArg("size_t (*)(char *, size_t, size_t, void *)",
                            frame[t].parameter))
     IN \E e \in ChoicesFor(call) :
       LET r    == LibCall(lib, mem, call, e)
       IN  Return(t, <<Made(call, r)>>, r, r.rc, e)

curl_easy_setopt_header_callback(t) ==
  /\ Entered(t, "curl_easy_setopt_header_callback")
  /\ LET call == SetoptCall(frame[t].curl, frame[t].option,
                            VaArg("size_t (*)(char *, size_t, size_t, void *)",
                            frame[t].parameter))
     IN \E e \in ChoicesFor(call) :
       LET r    == LibCall(lib, mem, call, e)
       IN  Return(t, <<Made(call, r)>>, r, r.rc, e)

\* variant: reports success whatever the library returned
curl_easy_setopt_progress_callback_swallow(t) ==
  /\ Entered(t, "curl_easy_setopt_progress_callback")
  /\ LET call == SetoptCall(frame[t].curl, frame[t].option,
                            VaArg("int (*)(void *, curl_off_t, curl_off_t, curl_off_t, curl_off_t)",
                            frame[t].parameter))
     IN \E e \in ChoicesFor(call) :
       LET r    == LibCall(lib, mem, call, e)
       IN  Return(t, <<Made(call, r)>>, r, "CURLE_OK", e)

curl_easy_setopt_progress_callback(t) ==
  /\ Entered(t, "curl_easy_setopt_progress_callback")
  /\ LET call == SetoptCall(frame[t].curl, frame[t].option,
                            VaArg("int (*)(void *, curl_off_t, curl_off_t, curl_off_t, curl_off_t)",
                            frame[t].parameter))
     IN \E e \in ChoicesFor(call) :
       LET r    == LibCall(lib, mem, call, e)
       IN  Return(t, <<Made(call, r)>>, r, r.rc, e)

\* variant: writes 0.0 to the destination when the library reported an error
curl_easy_getinfo_double_zeroing(t) ==
  /\ Entered(t, "curl_easy_getinfo_double")
  /\ LET call == GetinfoCall(frame[t].curl, frame[t].option,
                             VaArg("double *", frame[t].parameter))
     IN \E e \in ChoicesFor(call) :
       LET r    == LibCall(lib, mem, call, e)
           z    == [r EXCEPT !.mem = [r.mem EXCEPT ![frame[t].parameter] = Zero]]
       IN  IF r.crashed \/ r.rc = "CURLE_OK"
             THEN Return(t, <<Made(call, r)>>, r, r.rc, e)
             ELSE Return(t, <<Made(call, z)>>, z, z.rc, e)

curl_easy_getinfo_double(t) ==
  /\ Entered(t, "curl_easy_getinfo_double")
  /\ LET call == GetinfoCall(frame[t].curl, frame[t].option,
                             VaArg("double *", frame[t].parameter))
     IN \E e \in ChoicesFor(call) :
       LET r    == LibCall(lib, mem, call, e)
       IN  Return(t, <<Made(call, r)>>, r, r.rc, e)

\* variant: lets the library write into a local int and copies that back
Local == <<0, 0, 80, 0>>
curl_easy_getinfo_long_copy(t) ==
  /\ Entered(t, "curl_easy_getinfo_long")
  /\ LET call == GetinfoCall(frame[t].curl, frame[t].option,
                             VaArg("long *", Local))
         m    == [a \in Locations \cup {Local} |->
                    IF a = Local THEN Zero ELSE mem[a]]
     IN \E e \in ChoicesFor(call) :
       LET r    == LibCall(lib, m, call, e)
           back == [r EXCEPT !.mem = [a \in Locations |->
                      IF a = frame[t].parameter
                        THEN ConvertTo("int", r.mem[Local]) ELSE mem[a]]]
       IN  Return(t, <<Made(call, r)>>, back, r.rc, e)

curl_easy_getinfo_long(t) ==
  /\ Entered(t, "curl_easy_getinfo_long")
  /\ LET call == GetinfoCall(frame[t].curl, frame[t].option,
                             VaArg("long *", frame[t].parameter))
     IN \E e \in ChoicesFor(call) :
       LET r    == LibCall(lib, mem, call, e)
       IN  Return(t, <<Made(call, r)>>, r, r.rc, e)

Forward(t) ==
  \/ curl_easy_setopt_long(t)
  \/ curl_easy_setopt_string(t)
  \/ curl_easy_setopt_pointer(t)
  \/ curl_easy_setopt_int64(t)
  \/ curl_easy_setopt_write_callback(t)
  \/ curl_easy_setopt_header_callback(t)
  \/ curl_easy_setopt_progress_callback(t)
  \/ curl_easy_getinfo_double(t)
  \/ curl_easy_getinfo_long(t)

Next ==
  \/ \E t \in Threads : Call(t)
  \/ \E t \in Threads : curl_easy_setopt_long(t)
  \/ \E t \in Threads : curl_easy_setopt_string(t)
  \/ \E t \in Threads : curl_easy_setopt_pointer(t)
  \/ \E t \in Threads : curl_easy_setopt_int64(t)
  \/ \E t \in Threads : curl_easy_setopt_write_callback(t)
  \/ \E t \in Threads : curl_easy_setopt_header_callback(t)
  \/ \E t \in Threads : curl_easy_setopt_progress_callback(t)
  \/ \E t \in Threads : curl_easy_getinfo_double(t)
  \/ \E t \in Threads : curl_easy_getinfo_long(t)

Spec == Init /\ [][Next]_vars

TypeOK ==
  /\ pc \in [Threads -> {"idle", "entered", "returned", "aborted"}]
  /\ ncalls \in 0..MaxCalls
  /\ \A t \in Threads : frame[t].curl \in Handles
  /\ \A t \in Threads : frame[t].fn \in Forwarders \cup {"none"}
  /\ DOMAIN lib = Sessions
  /\ DOMAIN mem = Locations

\* ------------------------------------------------------------------ claims
Last(q) == q[Len(q)]

Finished(t) == pc[t] \in {"returned", "aborted"}

\* thread t leaves its forwarder in this step
Leaves(t) == pc[t] = "entered" /\ pc'[t] \in {"returned", "aborted"}

\* The identifier expects a value of another type than the forwarder passes.
Mismatched(f) ==
  IF f.fn \in SetoptForwarders
    THEN ~ArgMatches(OptClass(f.option), ParamType(f.fn))
    ELSE /\ InfoClass(f.option) # "unknown"
         /\ ParamType(f.fn) # (IF InfoClass(f.option) = "long" THEN "long *" ELSE "double *")

\* C1: when one of the seven option-setting forwarders has returned, the
\* status it returned is the status of the curl_easy_setopt call it made, and
\* that call was made for the caller's handle, option and value.
C1_SetoptStatusPassThrough ==
  \A t \in Threads :
    (pc[t] = "returned" /\ frame[t].fn \in SetoptForwarders) =>
      /\ calls[t] # <<>>
      /\ LET c == Last(calls[t])
         IN  /\ c.call.fn = "curl_easy_setopt"
             /\ c.call.curl = frame[t].curl
             /\ c.call.tag = frame[t].option
             /\ c.call.arg.bits = frame[t].parameter
             /\ result[t] = c.rc

\* a library failure came back through a forwarder, and so did the library's
\* rejection of a null handle through the progress-callback forwarder
C1_Witness ==
  \E t \in Threads :
    /\ pc[t] = "returned"
    /\ frame[t].fn \in SetoptForwarders
    /\ result[t] \in {"CURLE_OUT_OF_MEMORY", "CURLE_UNKNOWN_OPTION",
                      "CURLE_BAD_FUNCTION_ARGUMENT"}
    /\ \E u \in Threads :
         /\ pc[u] = "returned"
         /\ frame[u].fn = "curl_easy_setopt_progress_callback"
         /\ result[u] = "CURLE_BAD_FUNCTION_ARGUMENT"

\* C2: the step in which a getinfo forwarder returns made a curl_easy_getinfo
\* call whose destination argument is the caller's own location, returns that
\* call's status, and leaves in the location what the library stored there.
C2_GetinfoPassesDestination ==
  [][\A t \in Threads :
       (Leaves(t) /\ pc'[t] = "returned" /\ frame[t].fn \in GetinfoForwarders) =>
         /\ calls'[t] # <<>>
         /\ LET c == Last(calls'[t])
            IN  /\ c.call.fn = "curl_easy_getinfo"
                /\ c.call.curl = frame[t].curl
                /\ c.call.tag = frame[t].option
                /\ c.call.arg.bits = frame[t].parameter
                /\ result'[t] = c.rc
                /\ c.stored => mem'[frame[t].parameter] = c.value]_vars

\* the response code of session h2 was read into the caller's long
C2_Witness ==
  \E t \in Threads :
    /\ pc[t] = "returned"
    /\ frame[t].fn = "curl_easy_getinfo_long"
    /\ frame[t].curl = "h2"
    /\ result[t] = "CURLE_OK"
    /\ mem[frame[t].parameter] = lib["h2"].info["CURLINFO_RESPONSE_CODE"]
    /\ mem[frame[t].parameter] # Sentinel

\* C3: an invocation that is over made exactly one library call, whatever
\* the call's status; an invocation that has not reached its call made none.
C3_ExactlyOneLibraryCall ==
  \A t \in Threads :
    /\ Finished(t) => Len(calls[t]) = 1
    /\ pc[t] \in {"idle", "entered"} => Len(calls[t]) = 0

\* a forwarder returned a failing status after its one call
C3_Witness ==
  \E t \in Threads :
    /\ pc[t] = "returned"
    /\ result[t] = "CURLE_OUT_OF_MEMORY"
    /\ Len(calls[t]) = 1
    /\ calls[t][1].rc = "CURLE_OUT_OF_MEMORY"

\* C4: a forwarder called with a null handle, or with an identifier that
\* expects another value type, still makes the library call with exactly the
\* caller's arguments and returns the library's status.
C4_NoLocalValidation ==
  \A t \in Threads :
    (Finished(t) /\ (frame[t].curl = NULL \/ Mismatched(frame[t]))) =>
      /\ Len(calls[t]) >= 1
      /\ calls[t][1].call = DirectCall(frame[t])
      /\ pc[t] = "returned" => result[t] = calls[t][1].rc

\* one thread passed a null handle, the other a string option to the long
\* forwarder; both calls reached the library
C4_Witness ==
  \E t, u \in Threads :
    /\ pc[t] = "returned" /\ pc[u] = "returned"
    /\ frame[t].curl = NULL
    /\ frame[t].fn = "curl_easy_setopt_long"
    /\ result[t] = "CURLE_BAD_FUNCTION_ARGUMENT"
    /\ Len(calls[t]) = 1
    /\ frame[u].fn = "curl_easy_setopt_long"
    /\ frame[u].option = "CURLOPT_URL"
    /\ frame[u].curl \in Sessions
    /\ Len(calls[u]) = 1
    /\ calls[u][1].call.tag = "CURLOPT_URL"

\* C5: the library's sessions, the caller's memory and every status are what
\* they would be had the same calls been made to the library directly.
C5_ShimIsStateless ==
  /\ lib = libD
  /\ mem = memD
  /\ \A t \in Threads : result[t] = resultD[t]

\* two calls were made, one failed, and sessions and memory have changed
C5_Witness ==
  /\ ncalls = 2
  /\ \A t \in Threads : pc[t] = "returned"
  /\ \E t \in Threads : result[t] \notin {"none", "CURLE_OK"}
  /\ \E t \in Threads : frame[t].fn = "curl_easy_setopt_pointer" /\ result[t] = "CURLE_OK"
  /\ lib # InitLib

C7_WideValueForwarded ==
  \A t \in Threads :
    (Finished(t) /\ frame[t].fn \in {"curl_easy_setopt_int64", "curl_easy_setopt_long"}) =>
      /\ Len(calls[t]) = 1
      /\ calls[t][1].call.arg = [ctype |-> ParamType(frame[t].fn),
                                 bits  |-> frame[t].parameter]
      /\ calls[t][1].stored => calls[t][1].value = frame[t].parameter

\* 2^32 went through the int64 forwarder into the session
C7_Witness ==
  \E t \in Threads :
    /\ pc[t] = "returned"
    /\ frame[t].fn = "curl_easy_setopt_int64"
    /\ frame[t].parameter = Pow32
    /\ frame[t].curl \in Sessions
    /\ lib[frame[t].curl].opt["CURLOPT_INFILESIZE_LARGE"] = Pow32

CallbackForwarders ==
  {"curl_easy_setopt_write_callback", "curl_easy_setopt_header_callback"}

\* C8: the write and header callback forwarders make the call named by the
\* option they are given, and two invocations with the same handle, option
\* and callback made the same call with the same status, whichever of the
\* two forwarders each one used.
C8_CallbackForwardersInterchangeable ==
  /\ \A t \in Threads :
       (pc[t] = "returned" /\ frame[t].fn \in CallbackForwarders) =>
         /\ Len(calls[t]) = 1
         /\ calls[t][1].call.tag = frame[t].option
         /\ calls[t][1].stored => calls[t][1].value = frame[t].parameter
  /\ \A t, u \in Threads :
       ( /\ pc[t] = "returned" /\ pc[u] = "returned"
         /\ frame[t].fn \in CallbackForwarders
         /\ frame[u].fn \in CallbackForwarders
         /\ frame[t].curl = frame[u].curl
         /\ frame[t].option = frame[u].option
         /\ frame[t].parameter = frame[u].parameter ) =>
           /\ calls[t] = calls[u]
           /\ result[t] = result[u]

\* the header forwarder, given the write-function option, registered a write
\* callback; the write forwarder had made the same call
C8_Witness ==
  \E t, u \in Threads :
    /\ pc[t] = "returned" /\ pc[u] = "returned"
    /\ frame[t].fn = "curl_easy_setopt_write_callback"
    /\ frame[u].fn = "curl_easy_setopt_header_callback"
    /\ frame[t].curl = "h1" /\ frame[u].curl = "h1"
    /\ frame[t].option = "CURLOPT_WRITEFUNCTION"
    /\ frame[u].option = "CURLOPT_WRITEFUNCTION"
    /\ lib["h1"].opt["CURLOPT_WRITEFUNCTION"] = CbW
    /\ lib["h1"].opt["CURLOPT_HEADERFUNCTION"] = Unset

\* C9: a location of the caller's memory changes only in the step of a
\* getinfo forwarder whose library call stored into that very location; in
\* particular a call that stored nothing leaves the destination as it was.
C9_DestinationUntouched ==
  [][\A a \in Locations :
       mem'[a] # mem[a] =>
         \E t \in Threads :
           /\ Leaves(t)
           /\ frame[t].fn \in GetinfoForwarders
           /\ frame[t].parameter = a
           /\ Len(calls'[t]) = 1
           /\ calls'[t][1].stored
           /\ mem'[a] = calls'[t][1].value]_vars

\* a getinfo forwarder returned an error and its destination still holds
\* what it held before
C9_Witness ==
  \E t \in Threads :
    /\ pc[t] = "returned"
    /\ frame[t].fn \in GetinfoForwarders
    /\ result[t] \in {"CURLE_BAD_FUNCTION_ARGUMENT", "CURLE_UNKNOWN_OPTION"}
    /\ ~calls[t][1].stored
    /\ mem[frame[t].parameter] = Sentinel

====
